---- MODULE Spec2Model ----
(***************************************************************************)
(* A model of the OpenMV RPC library (src/src/openmvrpc.cpp): the master's *)
(* call (__put_command, __get_result), the slave's loop (__get_command,    *)
(* dispatch, __put_result) and the two byte transports between them.       *)
(*                                                                         *)
(* Abstractions.                                                           *)
(*  - A transport carries frames; a frame is the record                    *)
(*    [magic, data, size, ok, tag]: size is the number of bytes on the     *)
(*    wire, ok says that the trailing CRC matches the bytes before it, tag *)
(*    is history (who produced the frame) and is read by no action.  A     *)
(*    get_bytes consumes the frame at the head of its channel; a frame of  *)
(*    another size, another magic or with a bad CRC makes _get_packet fail.*)
(*  - Time is the elapsed time of the running retry loop, in ms, capped at *)
(*    the loop's budget.  A get that times out costs its timeout (plus the *)
(*    delay(_get_short_timeout) of the master transports); MStall and      *)
(*    SStall are arbitrary delays.                                         *)
(*  - env.timely = FALSE: any timing (a get may time out while the frame   *)
(*    is still under way, a flush drops what has arrived so far).          *)
(*    env.timely = TRUE: frames arrive at once, processing is faster than  *)
(*    a timeout, and the long timeout of the slave outlasts a short        *)
(*    timeout of the master.                                               *)
(***************************************************************************)
EXTENDS Integers, Sequences, FiniteSets, TLC

VARIABLES master, slave, m2s, s2m, env

vars == <<master, slave, m2s, s2m, env>>

(* ------------------------------ bounds -------------------------------- *)

\* calls the master application issues
MaxCalls == 2
\* frames a channel holds; a put on a full channel is lost
MaxChan == 1
\* frames the transport may lose or corrupt
MaxFaults == 1
\* total budgets (ms): the master's send_timeout and recv_timeout
MasterTimeout == 11
\* total budgets (ms): the slave's loop(send_timeout, recv_timeout)
SlaveTimeout == 2
\* bytes of the names that every overload of _hash is applied to
MaxName == 3
\* payload bytes of the frames that are encoded and decoded byte by byte
MaxPayload == 2
\* failed attempts of one retry loop of the master
MaxAttempts == 52
\* bytes of the buffers that get_bytes of every transport is applied to
MaxBuf == 4
\* frames a stream writer sends
MaxFrames == 4
\* the largest queue depth a stream reader asks for
MaxDepth == 8
\* calls of schedule_callback in a run of loop() alone
MaxArms == 4

(* ------------------------- program constants -------------------------- *)

_COMMAND_HEADER_PACKET_MAGIC == 4617
_COMMAND_DATA_PACKET_MAGIC == 35550
_RESULT_HEADER_PACKET_MAGIC == 27883
_RESULT_DATA_PACKET_MAGIC == 61861

_put_short_timeout_reset == 2
_get_short_timeout_reset == 2

\* the scratch buffers handed to rpc_master and rpc_slave
master_buff_len == 5
slave_buff_len == 6
\* rpc_slave's callback_dict_len
__dict_len == 3

Min(a, b) == IF a < b THEN a ELSE b

RECURSIVE BitXor(_, _)
BitXor(a, b) ==
  IF a = 0 THEN b
  ELSE IF b = 0 THEN a
  ELSE ((a + b) % 2) + 2 * BitXor(a \div 2, b \div 2)

(* ------------------------------- _hash -------------------------------- *)

\* A uint32_t is the pair <<high 16 bits, low 16 bits>>.
Half == 65536

\* (h << 5) + h, modulo 2^32
Times33(h) ==
  LET lo == h[2] * 33
      hi == h[1] * 33 + lo \div Half
  IN  <<hi % Half, lo % Half>>

\* h ^ c for a byte c below 0x80, as the bytes of the names of Names are; what
\* a byte from 0x80 on does, by the signedness of char, is HashXor below
XorByte(h, c) == <<h[1], BitXor(h[2], c)>>

\* uint32_t h = 5381
HashSeed == <<0, 5381>>

\* _hash(const char *name): djb2 with xor over the bytes before the first NUL
RECURSIVE hash_from(_, _, _)
hash_from(name, i, h) ==
  IF i > Len(name) \/ name[i] = 0 THEN h
  ELSE hash_from(name, i + 1, XorByte(Times33(h), name[i]))

_hash(name) == hash_from(name, 1, HashSeed)

\* procedure names, as C strings (ASCII "a", "b", "n", "x")
NameA == <<97>>

NameB == <<98>>

NameN == <<110>>

NameX == <<120>>

Names == {NameA, NameB, NameN, NameX}

\* request payloads: empty, one byte, and one that exceeds master_buff_len - 4
Requests == {<<>>, <<1>>, <<1, 2>>}

\* the calls of the master application: call_no_args of every name, call of
\* "a" with every request and call of "b" with one byte
Calls == (Names \X {<<>>}) \cup ({NameA} \X Requests) \cup {<<NameB, <<1>>>>}

\* result_data_len of the caller's buffer
ResultLens == {0, 2}

\* what the caller's buffer holds before the call
Stale == 9

(* ------------------------------ frames -------------------------------- *)

\* _set_packet: magic, payload and the CRC over both
_set_packet(magic_value, data, size, tag) ==
  [magic |-> magic_value, data |-> data, size |-> size + 4, ok |-> TRUE, tag |-> tag]

\* a _get_packet that leaves the CRC unchecked
_get_packet_unchecked(f, magic_value, size) ==
  f.size = size /\ f.magic = magic_value

\* _get_packet on the received bytes: the magic and the CRC must match
_get_packet_mutant(f, magic_value, size) ==
  f.size = size /\ f.ok

_get_packet(f, magic_value, size) ==
  f.size = size /\ f.magic = magic_value /\ f.ok

\* unpack_unsigned_long(buf + 2 + 4 * (i - 1)) of a header frame
unpack_unsigned_long(f, i) == IF i <= Len(f.data) THEN f.data[i] ELSE 0

\* what the transport does to a frame that is put
Fates == IF env.faults > 0 THEN {"pass", "lose", "corrupt"} ELSE {"pass"}

FaultCost(fate) == IF fate = "pass" THEN 0 ELSE 1

\* put_bytes: the frame joins the channel, unless the transport loses it
put_bytes(ch, f, fate) ==
  IF fate = "lose" \/ Len(ch) >= MaxChan THEN ch
  ELSE IF fate = "corrupt" THEN Append(ch, [f EXCEPT !.ok = FALSE])
  ELSE Append(ch, f)

\* _flush: the bytes that have arrived are dropped
Flushes(ch) ==
  IF env.timely THEN {<<>>}
  ELSE {SubSeq(ch, k + 1, Len(ch)) : k \in 0..Len(ch)}

(* ------------------------------ handlers ------------------------------ *)

\* rpc_callback_t: (in, in_len) -> (out, out_len)
HandlerOut(h, in) ==
  IF h = "echo" THEN in
  ELSE IF h = "mark" THEN <<2>> \o in
  ELSE <<>>

\* the handler "mark" calls schedule_callback
HandlerArms(h) == h = "mark"

\* a registration that never looks for the hash among the entries
register_callback_mutant(s, name, callback) ==
  IF Len(s.dict) < s.dict_len
  THEN [s EXCEPT !.dict = Append(@, [key |-> _hash(name), value |-> callback])]
  ELSE s

\* a registration that leaves the handler of an entry it finds as it was
register_callback_keep(s, name, callback) ==
  LET hash == _hash(name)
  IN  IF \E i \in 1..Len(s.dict) : s.dict[i].key = hash THEN s
      ELSE IF Len(s.dict) < s.dict_len
      THEN [s EXCEPT !.dict = Append(@, [key |-> hash, value |-> callback])]
      ELSE s

\* register_callback
register_callback(s, name, callback) ==
  LET hash == _hash(name)
      hit == {i \in 1..Len(s.dict) : s.dict[i].key = hash}
  IN  IF hit # {}
      THEN LET i == CHOOSE j \in hit : \A k \in hit : j <= k
           IN  [s EXCEPT !.dict[i].value = callback]
      ELSE IF Len(s.dict) < s.dict_len
      THEN [s EXCEPT !.dict = Append(@, [key |-> hash, value |-> callback])]
      ELSE s

\* register_callback: the value it returns
register_callback_ret(s, name) ==
  LET hash == _hash(name)
  IN  IF \E i \in 1..Len(s.dict) : s.dict[i].key = hash THEN TRUE
      ELSE Len(s.dict) < s.dict_len

\* a dispatch that falls back to the first entry when no key matches
DispatchIndex_mutant(dict, command) ==
  LET hit == {i \in 1..Len(dict) : dict[i].key = command /\ dict[i].value # "null"}
  IN  IF hit = {} THEN Min(1, Len(dict)) ELSE CHOOSE j \in hit : \A k \in hit : j <= k

\* the entry loop() dispatches a command to: the first one with this key and
\* a handler, 0 when there is none
DispatchIndex(dict, command) ==
  LET hit == {i \in 1..Len(dict) : dict[i].key = command /\ dict[i].value # "null"}
  IN  IF hit = {} THEN 0 ELSE CHOOSE j \in hit : \A k \in hit : j <= k

(* ------------------------------- state -------------------------------- *)

NoHash == <<0, 0>>

NoFrame == [magic |-> 0, data |-> <<>>, size |-> 0, ok |-> FALSE, tag |-> NoHash]

\* rpc_master::rpc_master, before the first call
MasterInit ==
  [pc |-> "idle", calls |-> 0, buff_len |-> master_buff_len,
   name |-> <<>>, req |-> <<>>,
   elapsed |-> 0,
   put_short |-> _put_short_timeout_reset, get_short |-> _get_short_timeout_reset,
   put_ok |-> FALSE, get_ok |-> FALSE,
   len |-> 0, buff |-> <<>>, result_size |-> 0,
   rlen |-> 0, flag |-> FALSE, ret |-> FALSE, result_data |-> <<>>,
   \* history of the running call
   io |-> FALSE, acked |-> FALSE, got |-> NoHash, expired |-> FALSE,
   did |-> "", returned |-> 0]

\* rpc_slave::rpc_slave; the application then registers its callbacks
SlaveNew ==
  [pc |-> "gc_loop", buff_len |-> slave_buff_len,
   dict |-> <<>>, dict_len |-> __dict_len,
   elapsed |-> 0,
   put_short |-> _put_short_timeout_reset, get_short |-> _get_short_timeout_reset,
   cmd |-> NoHash, len |-> 0, command |-> NoHash, data |-> <<>>, out_data |-> <<>>,
   schedule_cb |-> FALSE,
   \* history of the running attempt and command
   did |-> "", phase |-> 0, outstanding |-> FALSE, invoked |-> 0,
   \* history: the call whose COMMAND_DATA was read last, and the call that a
   \* handler ran for last, with the number of runs for it
   call |-> 0, runs |-> [call |-> 0, n |-> 0]]

SlaveInit ==
  register_callback(
    register_callback(
      register_callback(SlaveNew, NameB, "mark"), NameA, "echo"), NameN, "null")

Init ==
  /\ master = MasterInit
  /\ slave = SlaveInit
  /\ m2s = <<>>
  /\ s2m = <<>>
  /\ env \in {[timely |-> t, faults |-> MaxFaults, sput |-> FALSE, lost |-> "none"] :
               t \in BOOLEAN}

(* ------------------------------ transport ----------------------------- *)

\* the transport's account of a put: the faults left, whether the slave has
\* put a frame yet, and what was lost or corrupted: nothing, only the first
\* frame the slave put (if that is a COMMAND_HEADER ack), or anything else
Account(f, dir, fate) ==
  [env EXCEPT !.sput = @ \/ dir = "s2m",
              !.faults = @ - FaultCost(fate),
              !.lost = IF fate = "pass" THEN @
                       ELSE IF env.lost = "none" /\ dir = "s2m" /\ ~env.sput /\
                               fate = "lose" /\ f.magic = _COMMAND_HEADER_PACKET_MAGIC
                       THEN "first_hdr_ack"
                       ELSE "other"]

MShortWait == master.pc \in {"pc_hdr", "pc_data", "gr_hdr"}

MLongWait == master.pc = "gr_data"

MBlocked == master.pc = "idle" \/ ((MShortWait \/ MLongWait) /\ s2m = <<>>)

SShortWait == slave.pc \in {"gc_hdr", "pr_hdr", "pr_data"}

SLongWait == slave.pc = "gc_data"

SBlocked == (SShortWait \/ SLongWait) /\ m2s = <<>>

\* when a get of the master may time out: on a timely transport, when no
\* frame is there and the slave waits too
MCanTimeout ==
  \/ ~env.timely
  \/ s2m = <<>> /\ SBlocked

\* when a get of the slave may time out: on a timely transport, when no frame
\* is there and the master waits too; the long timeout of the slave outlasts
\* a short timeout of the master
SCanTimeout(long) ==
  \/ ~env.timely
  \/ m2s = <<>> /\ MBlocked /\ (long => ~MShortWait)

\* the "long" timeout of a bulk phase: what is left of the total budget
_get_long_timeout(timeout, elapsed) == timeout - elapsed

\* _get_packet(magic, buf, size, timeout) on a channel: the outcomes
\* [ok, f, ch, cost]: the frame at the head is read, or the get times out
GetOutcomes(ch, magic_value, size, cost, canTimeout) ==
  (IF ch # <<>>
   THEN {[ok |-> _get_packet(Head(ch), magic_value, size), f |-> Head(ch),
          ch |-> Tail(ch), cost |-> 0]}
   ELSE {})
  \cup
  (IF canTimeout
   THEN {[ok |-> FALSE, f |-> NoFrame, ch |-> ch, cost |-> cost]}
   ELSE {})

\* a master transport's get_bytes waits for its timeout, then delays
\* _get_short_timeout
MasterGet(magic_value, size, timeout) ==
  GetOutcomes(s2m, magic_value, size, timeout + master.get_short, MCanTimeout)

\* a slave transport's get_bytes waits for its timeout
SlaveGet(magic_value, size, timeout, long) ==
  GetOutcomes(m2s, magic_value, size, timeout, SCanTimeout(long))

(* ------------------------------- master ------------------------------- *)

\* "Avoid timeout livelocking" of __put_command and __get_result
MasterGrow(s, timeout) == Min((s * 6) \div 4, timeout)

\* the test of the retry loops: while ((millis() - start) < timeout)
MasterWithinBudget_mutant(elapsed, timeout) == TRUE

MasterWithinBudget(elapsed, timeout) == elapsed < timeout

\* a failed attempt that gives up instead of trying again
MasterRetry_mutant(m, loop, cost) ==
  [m EXCEPT !.pc = "ret", !.elapsed = Min(@ + cost, MasterTimeout)]

\* the end of a failed attempt of the master: time has passed, the short
\* timeouts grow, the retry loop tests its budget again
MasterRetry(m, loop, cost) ==
  [m EXCEPT !.pc = loop,
            !.elapsed = Min(@ + cost, MasterTimeout),
            !.put_short = MasterGrow(@, MasterTimeout),
            !.get_short = MasterGrow(@, MasterTimeout)]

\* a frame that is what it says: this magic, this size, and an intact CRC
Genuine(f, magic_value, size) == f.magic = magic_value /\ f.size = size /\ f.ok

\* a size test that forgets the four bytes of magic and CRC
PutCommandTooBig_mutant(buff_len, size) == buff_len < size

\* the size test of __put_command: _buff_len < (size + 4)
PutCommandTooBig(buff_len, size) == buff_len < size + 4

\* call(name, command_data, command_data_len, ...): the entry of __put_command
MCall(name, req) ==
  /\ master.pc = "idle"
  /\ master.calls < MaxCalls
  /\ master' =
       LET m == [MasterInit EXCEPT !.calls = master.calls + 1,
                                   !.returned = master.returned,
                                   !.put_short = master.put_short,
                                   !.get_short = master.get_short,
                                   !.name = name, !.req = req]
       IN  IF PutCommandTooBig(master.buff_len, Len(req))
           THEN [m EXCEPT !.pc = "ret"]
           ELSE [m EXCEPT !.pc = "pc_loop", !.elapsed = 0,
                          !.put_short = _put_short_timeout_reset,
                          !.get_short = _get_short_timeout_reset]
  /\ UNCHANGED <<slave, m2s, s2m, env>>

\* __put_command: the test of the retry loop, then _zero, _flush and
\* put_bytes(out_header)
MPutCommandLoop ==
  /\ master.pc = "pc_loop"
  /\ IF MasterWithinBudget(master.elapsed, MasterTimeout)
     THEN \E rest \in Flushes(s2m), fate \in Fates :
            LET f == _set_packet(_COMMAND_HEADER_PACKET_MAGIC,
                                 <<_hash(master.name), Len(master.req)>>, 8,
                                 master.calls)
            IN  /\ s2m' = rest
                /\ m2s' = put_bytes(m2s, f, fate)
                /\ env' = Account(f, "m2s", fate)
                /\ master' = [master EXCEPT !.pc = "pc_hdr", !.io = TRUE,
                                            !.did = "hdr"]
     ELSE /\ master' = [master EXCEPT !.pc = "ret", !.put_ok = FALSE,
                                      !.expired = TRUE, !.did = ""]
          /\ UNCHANGED <<m2s, s2m, env>>
  /\ UNCHANGED slave

\* __put_command: _get_packet(COMMAND_HEADER ack), then put_bytes(_buff)
MPutCommandHdr ==
  /\ master.pc = "pc_hdr"
  /\ \E o \in MasterGet(_COMMAND_HEADER_PACKET_MAGIC, 4, master.get_short),
        fate \in Fates :
       /\ s2m' = o.ch
       /\ IF o.ok
          THEN LET f == _set_packet(_COMMAND_DATA_PACKET_MAGIC, master.req,
                                    Len(master.req), master.calls)
               IN  /\ m2s' = put_bytes(m2s, f, fate)
                   /\ env' = Account(f, "m2s", fate)
                   /\ master' = [master EXCEPT !.pc = "pc_data", !.did = "data",
                                               !.acked = TRUE]
          ELSE /\ fate = "pass"
               /\ master' = [MasterRetry(master, "pc_loop", o.cost) EXCEPT !.did = ""]
               /\ UNCHANGED <<m2s, env>>
  /\ UNCHANGED slave

\* the attempt of __put_command that runs with this _get_short_timeout: the
\* timeout grows with every failed attempt
RECURSIVE TriesFrom(_, _, _)
TriesFrom(s, t, n) ==
  IF s >= t \/ MasterGrow(s, MasterTimeout) = s THEN n
  ELSE TriesFrom(MasterGrow(s, MasterTimeout), t, n + 1)

Tries(t) == TriesFrom(_get_short_timeout_reset, t, 1)

\* __put_command: _get_packet(COMMAND_DATA ack)
MPutCommandData ==
  /\ master.pc = "pc_data"
  /\ \E o \in MasterGet(_COMMAND_DATA_PACKET_MAGIC, 4, master.get_short) :
       /\ s2m' = o.ch
       /\ master' =
            IF o.ok
            THEN [master EXCEPT !.pc = "gr_entry", !.put_ok = TRUE,
                                !.acked = TRUE, !.did = ""]
            ELSE [MasterRetry(master, "pc_loop", o.cost) EXCEPT !.did = ""]
  /\ UNCHANGED <<slave, m2s, env>>

\* __get_result: the entry
MGetResultEntry ==
  /\ master.pc = "gr_entry"
  /\ master' = [master EXCEPT !.pc = "gr_loop", !.elapsed = 0,
                              !.put_short = _put_short_timeout_reset,
                              !.get_short = _get_short_timeout_reset]
  /\ UNCHANGED <<slave, m2s, s2m, env>>

\* __get_result: the test of the retry loop, then _zero, _flush and
\* put_bytes(__out_result_header_ack)
MGetResultLoop ==
  /\ master.pc = "gr_loop"
  /\ IF MasterWithinBudget(master.elapsed, MasterTimeout)
     THEN \E rest \in Flushes(s2m), fate \in Fates :
            LET f == _set_packet(_RESULT_HEADER_PACKET_MAGIC, <<>>, 0, master.calls)
            IN  /\ s2m' = rest
                /\ m2s' = put_bytes(m2s, f, fate)
                /\ env' = Account(f, "m2s", fate)
                /\ master' = [master EXCEPT !.pc = "gr_hdr", !.did = "rh_req"]
     ELSE /\ master' = [master EXCEPT !.pc = "ret", !.get_ok = FALSE,
                                      !.expired = TRUE, !.did = ""]
          /\ UNCHANGED <<m2s, s2m, env>>
  /\ UNCHANGED slave

\* uint32_t in_result_data_buf_len = unpack_unsigned_long(buf + 2) + 4; the
\* lengths that the frames of this model carry stay far below 2^32 - 4
DataBufLen(len) == len + 4

\* a size test that compares the payload alone
ResultTooBig_mutant(buff_len, data_buf_len) == buff_len < data_buf_len - 4

\* the size test of __get_result: _buff_len < in_result_data_buf_len
ResultTooBig(buff_len, data_buf_len) == buff_len < data_buf_len

\* __get_result: _get_packet(RESULT_HEADER ack), the size test, then
\* put_bytes(__out_result_data_ack)
MGetResultHdr ==
  /\ master.pc = "gr_hdr"
  /\ \E o \in MasterGet(_RESULT_HEADER_PACKET_MAGIC, 8, master.get_short),
        fate \in Fates :
       /\ s2m' = o.ch
       /\ IF o.ok /\ ~ResultTooBig(master.buff_len, DataBufLen(unpack_unsigned_long(o.f, 1)))
          THEN LET f == _set_packet(_RESULT_DATA_PACKET_MAGIC, <<>>, 0, master.calls)
               IN  /\ m2s' = put_bytes(m2s, f, fate)
                   /\ env' = Account(f, "m2s", fate)
                   /\ master' = [master EXCEPT
                                   !.pc = "gr_data", !.did = "rd_req",
                                   !.len = DataBufLen(unpack_unsigned_long(o.f, 1)),
                                   !.acked = TRUE]
          ELSE /\ fate = "pass"
               /\ master' =
                    IF o.ok
                    THEN [master EXCEPT !.pc = "ret", !.get_ok = FALSE, !.did = "",
                                        !.len = DataBufLen(unpack_unsigned_long(o.f, 1)),
                                        !.acked = TRUE]
                    ELSE [MasterRetry(master, "gr_loop", o.cost) EXCEPT !.did = ""]
               /\ UNCHANGED <<m2s, env>>
  /\ UNCHANGED slave

\* __get_result: _get_packet(RESULT_DATA, _buff, in_result_data_buf_len,
\* _get_long_timeout)
MGetResultData ==
  /\ master.pc = "gr_data"
  /\ \E o \in MasterGet(_RESULT_DATA_PACKET_MAGIC, master.len,
                        _get_long_timeout(MasterTimeout, master.elapsed)) :
       /\ s2m' = o.ch
       /\ master' =
            IF o.ok
            THEN [master EXCEPT !.pc = "ret", !.get_ok = TRUE, !.did = "",
                                !.buff = o.f.data, !.result_size = master.len - 4,
                                !.acked = TRUE, !.got = o.f.tag]
            ELSE [MasterRetry(master, "gr_loop", o.cost) EXCEPT !.did = ""]
  /\ UNCHANGED <<slave, m2s, env>>

\* a call that ignores return_false_if_received_data_is_zero
CallResult_mutant(put_ok, get_ok, result_size, flag) ==
  IF put_ok THEN get_ok ELSE FALSE

\* if (return_false_if_received_data_is_zero) result = result && result_size
CallResult(put_ok, get_ok, result_size, flag) ==
  LET result == IF put_ok THEN get_ok ELSE FALSE
  IN  IF flag THEN result /\ result_size # 0 ELSE result

\* a call that leaves the caller's buffer alone when it fails
CallCopy_mutant(result, buff, result_size, rlen) ==
  IF result
  THEN [i \in 1..rlen |-> IF i <= Min(rlen, result_size) THEN buff[i] ELSE Stale]
  ELSE [i \in 1..rlen |-> Stale]

\* memcpy(result_data, result_pointer, min(result_data_len, result_size)) into
\* a buffer that held Stale bytes, or memset(result_data, 0, result_data_len)
CallCopy(result, buff, result_size, rlen) ==
  IF result
  THEN [i \in 1..rlen |-> IF i <= Min(rlen, result_size) THEN buff[i] ELSE Stale]
  ELSE [i \in 1..rlen |-> 0]

\* call: the return, with the caller's result_data_len and
\* return_false_if_received_data_is_zero (read here for the first time)
MReturn(rlen, flag) ==
  /\ master.pc = "ret"
  /\ master' =
       LET result == CallResult(master.put_ok, master.get_ok, master.result_size, flag)
       IN  [master EXCEPT !.pc = "idle", !.rlen = rlen, !.flag = flag,
                          !.elapsed = 0, !.len = 0,
                          !.ret = result, !.returned = @ + 1, !.did = "",
                          !.result_data =
                            CallCopy(result, master.buff, master.result_size, rlen)]
  /\ UNCHANGED <<slave, m2s, s2m, env>>

\* any delay of the master that uses up the budget of the running retry loop
MStall ==
  /\ ~env.timely
  /\ master.pc \notin {"idle", "ret", "gr_entry"}
  /\ master.elapsed < MasterTimeout
  /\ master' = [master EXCEPT !.elapsed = MasterTimeout]
  /\ UNCHANGED <<slave, m2s, s2m, env>>

(* ------------------------------- slave -------------------------------- *)

\* "Avoid timeout livelocking" of __get_command and __put_result
SlaveGrow(s, timeout) == Min(s + 1, timeout)

\* a failed attempt that always resumes in __get_command
SlaveRetry_mutant(s, loop, cost) ==
  [s EXCEPT !.pc = "gc_loop",
            !.elapsed = Min(@ + cost, SlaveTimeout),
            !.put_short = Min(@ + 1, SlaveTimeout),
            !.get_short = Min(@ + 1, SlaveTimeout),
            !.did = ""]

\* the end of a failed attempt of the slave
SlaveRetry(s, loop, cost) ==
  [s EXCEPT !.pc = loop,
            !.elapsed = Min(@ + cost, SlaveTimeout),
            !.put_short = SlaveGrow(@, SlaveTimeout),
            !.get_short = SlaveGrow(@, SlaveTimeout),
            !.did = ""]

\* an iteration that disarms the one-shot hook even when no command came
NextIteration_mutant(s) ==
  [s EXCEPT !.pc = "gc_loop", !.elapsed = 0,
            !.put_short = _put_short_timeout_reset,
            !.get_short = _get_short_timeout_reset,
            !.cmd = NoHash, !.len = 0, !.command = NoHash, !.data = <<>>,
            !.out_data = <<>>,
            !.outstanding = FALSE,
            !.schedule_cb = FALSE]

\* loop(): the rest of an iteration (__loop_cb is not set), then the entry of
\* __get_command in the next one
NextIteration(s) ==
  [s EXCEPT !.pc = "gc_loop", !.elapsed = 0,
            !.put_short = _put_short_timeout_reset,
            !.get_short = _get_short_timeout_reset,
            !.cmd = NoHash, !.len = 0, !.command = NoHash, !.data = <<>>,
            !.out_data = <<>>,
            !.outstanding = FALSE]

\* a loop() that leaves the one-shot hook armed
AfterPutResult_mutant(s, put) ==
  [s EXCEPT !.pc = "gc_loop", !.elapsed = 0,
            !.put_short = _put_short_timeout_reset,
            !.get_short = _get_short_timeout_reset,
            !.cmd = NoHash, !.len = 0, !.command = NoHash, !.data = <<>>,
            !.out_data = <<>>,
            !.outstanding = FALSE]

\* loop(): after __put_result: the one-shot hook fires if the result was put,
\* and is cleared
AfterPutResult(s, put) ==
  NextIteration([s EXCEPT !.schedule_cb = FALSE])

\* __get_command: the test of the retry loop, then _zero and _flush
SGetCommandLoop ==
  /\ slave.pc = "gc_loop"
  /\ IF slave.elapsed < SlaveTimeout
     THEN /\ \E rest \in Flushes(m2s) : m2s' = rest
          /\ slave' = [slave EXCEPT !.pc = "gc_hdr", !.did = "", !.phase = 0]
     ELSE /\ slave' = [NextIteration(slave) EXCEPT !.did = "", !.phase = 0]
          /\ UNCHANGED m2s
  /\ UNCHANGED <<master, s2m, env>>

\* a size test that compares the payload alone
CommandTooBig_mutant(buff_len, data_buf_len) == buff_len < data_buf_len - 4

\* the size test of __get_command: _buff_len < in_command_data_buf_len
CommandTooBig(buff_len, data_buf_len) == buff_len < data_buf_len

\* __get_command: _get_packet(COMMAND_HEADER), the size test, then
\* put_bytes(__out_command_header_ack)
SGetCommandHdr ==
  /\ slave.pc = "gc_hdr"
  /\ \E o \in SlaveGet(_COMMAND_HEADER_PACKET_MAGIC, 12, slave.get_short, FALSE),
        fate \in Fates :
       /\ m2s' = o.ch
       /\ IF o.ok /\ ~CommandTooBig(slave.buff_len, DataBufLen(unpack_unsigned_long(o.f, 2)))
          THEN LET f == _set_packet(_COMMAND_HEADER_PACKET_MAGIC, <<>>, 0, NoHash)
               IN  /\ s2m' = put_bytes(s2m, f, fate)
                   /\ env' = Account(f, "s2m", fate)
                   /\ slave' = [slave EXCEPT
                                  !.pc = "gc_data", !.did = "hdr_ack",
                                  !.cmd = unpack_unsigned_long(o.f, 1),
                                  !.len = DataBufLen(unpack_unsigned_long(o.f, 2)),
                                  !.phase = IF Genuine(o.f, _COMMAND_HEADER_PACKET_MAGIC, 12)
                                            THEN 1 ELSE -1]
          ELSE /\ fate = "pass"
               /\ slave' = IF o.ok
                           THEN [NextIteration(slave) EXCEPT !.did = "too_big", !.phase = 0]
                           ELSE SlaveRetry(slave, "gc_loop", o.cost)
               /\ UNCHANGED <<s2m, env>>
  /\ UNCHANGED master

\* __get_command: _get_packet(COMMAND_DATA, _buff, in_command_data_buf_len,
\* _get_long_timeout), then put_bytes(__out_command_data_ack)
SGetCommandData ==
  /\ slave.pc = "gc_data"
  /\ \E o \in SlaveGet(_COMMAND_DATA_PACKET_MAGIC, slave.len,
                       _get_long_timeout(SlaveTimeout, slave.elapsed), TRUE),
        fate \in Fates :
       /\ m2s' = o.ch
       /\ IF o.ok
          THEN LET f == _set_packet(_COMMAND_DATA_PACKET_MAGIC, <<>>, 0, NoHash)
               IN  /\ s2m' = put_bytes(s2m, f, fate)
                   /\ env' = Account(f, "s2m", fate)
                   /\ slave' = [slave EXCEPT
                                  !.pc = "dispatch", !.did = "data_ack",
                                  !.command = slave.cmd, !.data = o.f.data,
                                  !.outstanding = TRUE, !.invoked = 0,
                                  !.call = o.f.tag,
                                  !.phase = IF slave.phase = 1 /\
                                               Genuine(o.f, _COMMAND_DATA_PACKET_MAGIC, slave.len)
                                            THEN 2 ELSE -1]
          ELSE /\ fate = "pass"
               /\ slave' = SlaveRetry(slave, "gc_loop", o.cost)
               /\ UNCHANGED <<s2m, env>>
  /\ UNCHANGED master

\* the size test of __put_result: _buff_len < (size + 4)
PutResultTooBig(buff_len, size) == buff_len < size + 4

\* loop(): the dispatch of the command to its handler, then the entry of
\* __put_result
SDispatch ==
  /\ slave.pc = "dispatch"
  /\ slave' =
       LET i == DispatchIndex(slave.dict, slave.command)
           out == IF i = 0 THEN <<>> ELSE HandlerOut(slave.dict[i].value, slave.data)
           s == [slave EXCEPT
                   !.out_data = out,
                   !.schedule_cb = IF i # 0 /\ HandlerArms(slave.dict[i].value)
                                   THEN TRUE ELSE @,
                   !.did = IF i = 0 THEN "no_handler" ELSE "handler",
                   !.invoked = IF i = 0 THEN @ ELSE @ + 1,
                   !.runs = IF i = 0 THEN @
                            ELSE IF @.call = slave.call
                            THEN [@ EXCEPT !.n = Min(@ + 1, 2)]
                            ELSE [call |-> slave.call, n |-> 1],
                   !.phase = IF slave.phase = 2 THEN 3 ELSE -1]
       IN  IF PutResultTooBig(slave.buff_len, Len(out))
           THEN AfterPutResult(s, FALSE)
           ELSE [s EXCEPT !.pc = "pr_loop", !.elapsed = 0,
                          !.put_short = _put_short_timeout_reset,
                          !.get_short = _get_short_timeout_reset]
  /\ UNCHANGED <<master, m2s, s2m, env>>

\* __put_result: the test of the retry loop, then _zero and _flush
SPutResultLoop ==
  /\ slave.pc = "pr_loop"
  /\ IF slave.elapsed < SlaveTimeout
     THEN /\ \E rest \in Flushes(m2s) : m2s' = rest
          /\ slave' = [slave EXCEPT !.pc = "pr_hdr", !.did = "",
                                    !.phase = IF @ >= 3 THEN 3 ELSE -1]
     ELSE /\ slave' = [AfterPutResult(slave, FALSE) EXCEPT !.did = ""]
          /\ UNCHANGED m2s
  /\ UNCHANGED <<master, s2m, env>>

\* __put_result: _get_packet(RESULT_HEADER), then put_bytes(out_header)
SPutResultHdr ==
  /\ slave.pc = "pr_hdr"
  /\ \E o \in SlaveGet(_RESULT_HEADER_PACKET_MAGIC, 4, slave.get_short, FALSE),
        fate \in Fates :
       /\ m2s' = o.ch
       /\ IF o.ok
          THEN LET f == _set_packet(_RESULT_HEADER_PACKET_MAGIC,
                                    <<Len(slave.out_data)>>, 4, slave.command)
               IN  /\ s2m' = put_bytes(s2m, f, fate)
                   /\ env' = Account(f, "s2m", fate)
                   /\ slave' = [slave EXCEPT
                                  !.pc = "pr_data", !.did = "rh_ack",
                                  !.phase = IF slave.phase = 3 /\
                                               Genuine(o.f, _RESULT_HEADER_PACKET_MAGIC, 4)
                                            THEN 4 ELSE -1]
          ELSE /\ fate = "pass"
               /\ slave' = SlaveRetry(slave, "pr_loop", o.cost)
               /\ UNCHANGED <<s2m, env>>
  /\ UNCHANGED master

\* __put_result: _get_packet(RESULT_DATA), then put_bytes(_buff); loop() then
\* runs the one-shot hook
SPutResultData ==
  /\ slave.pc = "pr_data"
  /\ \E o \in SlaveGet(_RESULT_DATA_PACKET_MAGIC, 4, slave.get_short, FALSE),
        fate \in Fates :
       /\ m2s' = o.ch
       /\ IF o.ok
          THEN LET f == _set_packet(_RESULT_DATA_PACKET_MAGIC, slave.out_data,
                                    Len(slave.out_data), slave.command)
               IN  /\ s2m' = put_bytes(s2m, f, fate)
                   /\ env' = Account(f, "s2m", fate)
                   /\ slave' = [AfterPutResult(slave, TRUE) EXCEPT
                                  !.did = "rd",
                                  !.phase = IF slave.phase = 4 /\
                                               Genuine(o.f, _RESULT_DATA_PACKET_MAGIC, 4)
                                            THEN 5 ELSE -1]
          ELSE /\ fate = "pass"
               /\ slave' = SlaveRetry(slave, "pr_loop", o.cost)
               /\ UNCHANGED <<s2m, env>>
  /\ UNCHANGED master

\* any delay of the slave that uses up the budget of the running retry loop
SStall ==
  /\ ~env.timely
  /\ slave.pc # "dispatch"
  /\ slave.elapsed < SlaveTimeout
  /\ slave' = [slave EXCEPT !.elapsed = SlaveTimeout]
  /\ UNCHANGED <<master, m2s, s2m, env>>

(* --------------------------- specifications --------------------------- *)

MasterStep ==
  \/ MPutCommandLoop
  \/ MPutCommandHdr
  \/ MPutCommandData
  \/ MGetResultEntry
  \/ MGetResultLoop
  \/ MGetResultHdr
  \/ MGetResultData
  \/ \E rlen \in ResultLens, flag \in BOOLEAN : MReturn(rlen, flag)

SlaveStep ==
  \/ SGetCommandLoop
  \/ SGetCommandHdr
  \/ SGetCommandData
  \/ SDispatch
  \/ SPutResultLoop
  \/ SPutResultHdr
  \/ SPutResultData

Next ==
  \/ \E c \in Calls : MCall(c[1], c[2])
  \/ MasterStep
  \/ SlaveStep
  \/ MStall
  \/ SStall

Spec == Init /\ [][Next]_vars

\* the calls of the runs that are checked for termination: one that the
\* slave answers within the master's buffer and one that it answers beyond it
LiveCalls == {<<NameA, <<1>>>>, <<NameB, <<1>>>>}

LiveNext ==
  \/ \E c \in LiveCalls : MCall(c[1], c[2])
  \/ MasterStep
  \/ SlaveStep
  \/ MStall
  \/ SStall

\* every get and put of the master returns (a get that waits on a timely
\* transport times out once the slave waits too, which it does again and
\* again), the slave's loop() runs for ever, and the clock of a running retry
\* loop advances
FairSpec ==
  /\ Init
  /\ [][LiveNext]_vars
  /\ SF_vars(MasterStep)
  /\ WF_vars(SlaveStep)
  /\ WF_vars(MStall)

(* ------------------------------- claims ------------------------------- *)

\* the call that returned last
Returned == master.pc = "idle" /\ master.calls > 0

\* a handler is registered under this command
HasHandler(command) ==
  \E i \in 1..Len(slave.dict) :
    slave.dict[i].key = command /\ slave.dict[i].value # "null"

\* what the handler registered under hash(name) produces on the request of
\* the call
HandlerIndex == DispatchIndex(slave.dict, _hash(master.name))

ExpectedOut ==
  IF HandlerIndex = 0 THEN <<>>
  ELSE HandlerOut(slave.dict[HandlerIndex].value, master.req)

\* C1: whenever call returns true, the bytes copied into the caller's buffer
\* are the first min(result_data_len, result_size) bytes of the output of the
\* handler registered under hash(name), invoked on the request of this call.
C1_ResultIsHandlerOutput ==
  (Returned /\ master.ret /\ HandlerIndex # 0) =>
    LET k == Min(master.rlen, master.result_size)
    IN  /\ k <= Len(ExpectedOut)
        /\ \A i \in 1..k : master.result_data[i] = ExpectedOut[i]

\* the slave is in __put_result
InPutResult == slave.pc \in {"pr_loop", "pr_hdr", "pr_data"}

\* the result frames the slave produced for this command carry no payload
EmptyResultFrames(ch) ==
  \A i \in 1..Len(ch) :
    (ch[i].tag # NoHash /\ ~HasHandler(ch[i].tag)) =>
      /\ ch[i].magic = _RESULT_HEADER_PACKET_MAGIC => ch[i].data = <<0>>
      /\ ch[i].magic = _RESULT_DATA_PACKET_MAGIC => ch[i].data = <<>> /\ ch[i].size = 4

\* C2: a command that no handler is registered for (its hash is unknown, or
\* its callback is null) is acknowledged and then answered by __put_result
\* with a result of length 0; a call that completes its exchange on that
\* answer, with return_false_if_received_data_is_zero clear, returns true
\* with result_size = 0.
C2_UnknownCommandEmptyResult ==
  /\ [](/\ (InPutResult /\ ~HasHandler(slave.command)) => slave.out_data = <<>>
        /\ EmptyResultFrames(s2m)
        /\ (Returned /\ master.put_ok /\ master.get_ok /\ ~master.flag /\
            ~HasHandler(master.got)) => (master.ret /\ master.result_size = 0))
  /\ [][(slave.pc = "dispatch" /\ slave'.pc # "dispatch" /\
         ~HasHandler(slave.command)) =>
          (slave.did = "data_ack" /\ slave'.pc = "pr_loop" /\
           slave'.out_data = <<>>)]_vars

C2_Witness ==
  /\ Returned /\ master.name = NameX /\ master.got = _hash(NameX)
  /\ master.ret /\ ~master.flag /\ master.result_size = 0

\* the four-phase exchange of the call succeeded
ExchangeOk == master.put_ok /\ master.get_ok

\* C3: with return_false_if_received_data_is_zero set, a call returns true
\* if and only if its exchange succeeded and result_size is not 0.
C3_FlagReportsEmptyAsFalse ==
  (Returned /\ master.flag) =>
    (master.ret <=> (ExchangeOk /\ master.result_size # 0))

C3_Witness ==
  Returned /\ master.flag /\ ExchangeOk /\ master.result_size = 0 /\ ~master.ret

\* C4: whenever a call returns false, every byte of the caller's buffer in
\* [0, result_data_len) is zero.
C4_FalseZeroesBuffer ==
  (Returned /\ ~master.ret) =>
    /\ Len(master.result_data) = master.rlen
    /\ \A i \in 1..master.rlen : master.result_data[i] = 0

C4_Witness ==
  /\ Returned /\ ~master.ret /\ master.rlen = 2
  /\ ExchangeOk /\ master.flag /\ master.result_data = <<0, 0>>

\* the request of the call exceeds buff_len - 4
RequestOversize == master.calls > 0 /\ Len(master.req) > master.buff_len - 4

\* C5: a call whose request is longer than buff_len - 4 returns false
\* without any transport operation: it never enters a retry loop, neither of
\* __put_command nor of __get_result.
C5_OversizeRequestNoIO ==
  RequestOversize =>
    /\ master.pc \in {"ret", "idle"}
    /\ ~master.io /\ ~master.put_ok /\ ~master.get_ok /\ ~master.acked
    /\ master.pc = "idle" => ~master.ret

C5_Witness == Returned /\ RequestOversize /\ ~master.ret /\ ~master.io

\* the master reads, in __get_result, a valid RESULT_HEADER ack that
\* announces more than the buffer holds
ReadsOversizeHeader ==
  /\ master.pc = "gr_hdr" /\ s2m # <<>> /\ s2m' = Tail(s2m)
  /\ Head(s2m).magic = _RESULT_HEADER_PACKET_MAGIC
  /\ Head(s2m).size = 8 /\ Head(s2m).ok
  /\ Head(s2m).data[1] + 4 > master.buff_len

\* C6: when __get_result reads a valid RESULT_HEADER ack with
\* result_len + 4 > buff_len, it returns false at once: no RESULT_DATA
\* request is put, no time passes and no attempt follows; the call then
\* returns false.
C6_OversizeResultFailsFast ==
  /\ [][ReadsOversizeHeader =>
          /\ master'.pc = "ret" /\ ~master'.get_ok
          /\ m2s' = m2s /\ master'.elapsed = master.elapsed]_vars
  /\ [][(master.pc = "ret" /\ ~master.get_ok /\ master' # master) =>
          (master'.pc = "idle" /\ ~master'.ret)]_vars

C6_Witness ==
  /\ master.pc = "ret" /\ master.put_ok /\ ~master.get_ok /\ ~master.expired
  /\ master.len > master.buff_len

\* C7: every call returns (the master is scheduled, the clock advances); a
\* retry loop whose budget has elapsed makes no further attempt; and a call
\* that accepted no acknowledgement returns false.
C7_CallTerminates ==
  /\ (master.pc # "idle") ~> (master.pc = "idle")
  /\ [][(master.pc \in {"pc_loop", "gr_loop"} /\ master.elapsed >= MasterTimeout /\
         master' # master) => (master'.pc = "ret" /\ master'.expired)]_vars
  /\ []((Returned /\ ~master.acked) => ~master.ret)

C7_Witness ==
  Returned /\ master.io /\ master.expired /\ ~master.acked /\ ~master.ret

\* the first call, on a timely transport that has lost the first
\* COMMAND_HEADER ack and nothing else, has put its command
FirstAckLostThenPut ==
  /\ env.timely /\ env.lost = "first_hdr_ack"
  /\ master.calls = 1 /\ master.pc = "gr_entry"

\* a call fails only when a size test fails or a total budget has elapsed
FailsOnlyOnBudget ==
  (master.pc = "ret" /\ ~ExchangeOk) =>
    \/ master.expired
    \/ Len(master.req) > master.buff_len - 4
    \/ master.put_ok /\ master.len > master.buff_len

C9_SlavePhasesOrdered ==
  /\ slave.phase # -1
  /\ slave.did = "hdr_ack" => slave.phase = 1
  /\ slave.did = "data_ack" => slave.phase = 2
  /\ slave.did \in {"handler", "no_handler"} => slave.phase = 3
  /\ slave.pc = "dispatch" => slave.phase = 2
  /\ slave.did = "rh_ack" => slave.phase = 4
  /\ slave.pc = "pr_data" => slave.phase = 4
  /\ slave.did = "rd" => slave.phase = 5

C9_Witness == slave.did = "rd" /\ slave.phase = 5 /\ slave.invoked = 1

\* a frame joins the channel from the master to the slave
MasterPuts == Len(m2s') > Len(m2s)

\* C10: while a command is outstanding on the slave (from the COMMAND_DATA
\* ack to the end of __put_result) the slave acknowledges no COMMAND_HEADER
\* and invokes at most one handler; and every frame the master puts belongs
\* to the one call that has not returned.
C10_OneCallOutstanding ==
  /\ [](slave.outstanding =>
          /\ slave.pc \in {"dispatch", "pr_loop", "pr_hdr", "pr_data"}
          /\ slave.did # "hdr_ack"
          /\ slave.invoked <= 1)
  /\ [](master.calls - master.returned = IF master.pc = "idle" THEN 0 ELSE 1)
  /\ [][MasterPuts =>
          /\ m2s'[Len(m2s')].tag = master.calls
          /\ master.pc # "idle" /\ master.returned = master.calls - 1]_vars

C10_Witness ==
  /\ slave.outstanding /\ slave.pc = "pr_data" /\ slave.invoked = 1
  /\ master.calls = 2 /\ master.returned = 1 /\ m2s # <<>>

(* ------------------------------ registry ------------------------------ *)

\* the callbacks an application registers: two handlers and a null pointer
Callbacks == {"echo", "mark", "null"}

\* the hashes of the names an application registers
NameHashes == {_hash(name) : name \in Names}

\* the slave alone: the application registers callbacks, in any order; env
\* keeps the last call, the table before it and what it returned, and for
\* every hash the callback of the last call that returned true
RegInit ==
  /\ master = MasterInit
  /\ slave = SlaveNew
  /\ m2s = <<>>
  /\ s2m = <<>>
  /\ env = [op |-> "none", name |-> <<>>, callback |-> "null",
            before |-> <<>>, ret |-> FALSE,
            latest |-> [h \in NameHashes |-> "none"]]

Register(name, callback) ==
  /\ slave' = register_callback(slave, name, callback)
  /\ env' = [op |-> "register", name |-> name, callback |-> callback,
             before |-> slave.dict, ret |-> register_callback_ret(slave, name),
             latest |-> IF register_callback_ret(slave, name)
                        THEN [env.latest EXCEPT ![_hash(name)] = callback]
                        ELSE env.latest]
  /\ UNCHANGED <<master, m2s, s2m>>

RegNext == \E name \in Names, callback \in Callbacks : Register(name, callback)

RegSpec == RegInit /\ [][RegNext]_vars

\* the entries of a table with this hash
EntriesOf(dict, hash) == {i \in 1..Len(dict) : dict[i].key = hash}

\* C11: register_callback returns true if and only if the hash of the name is
\* among the allocated entries (then the handler of that entry alone is
\* replaced and the number of entries is unchanged) or the number of entries
\* is below the capacity (then exactly one entry is appended); when it
\* returns false the table is unchanged.
C11_RegisterCallback ==
  env.op = "register" =>
    LET hash == _hash(env.name)
        present == EntriesOf(env.before, hash) # {}
        room == Len(env.before) < __dict_len
    IN  /\ env.ret <=> (present \/ room)
        /\ present =>
             /\ Len(slave.dict) = Len(env.before)
             /\ \E i \in EntriesOf(env.before, hash) :
                  slave.dict = [env.before EXCEPT ![i].value = env.callback]
        /\ (~present /\ room) =>
             slave.dict = Append(env.before, [key |-> hash, value |-> env.callback])
        /\ ~env.ret => slave.dict = env.before
        /\ Len(slave.dict) <= __dict_len

\* a fourth name is refused by a full table
C11_Witness ==
  /\ env.op = "register" /\ ~env.ret
  /\ Len(env.before) = __dict_len /\ slave.dict = env.before

\* C29: after any sequence of register_callback calls on a table of capacity
\* C, at most C entries are allocated and no two entries share a hash key, so
\* the dispatch of loop() finds, for a hash, the handler of the last
\* registration of that hash that succeeded (none when that one registered a
\* null pointer or when there was none).
C29_LatestHandlerDispatched ==
  /\ Len(slave.dict) <= slave.dict_len
  /\ \A i, j \in 1..Len(slave.dict) :
       slave.dict[i].key = slave.dict[j].key => i = j
  /\ \A h \in NameHashes :
       LET i == DispatchIndex(slave.dict, h)
       IN  IF env.latest[h] \in {"none", "null"} THEN i = 0
           ELSE i # 0 /\ slave.dict[i].value = env.latest[h]

\* a full table, and a name in it registered again with another handler
C29_Witness ==
  /\ env.op = "register" /\ env.ret /\ env.callback = "mark"
  /\ Len(env.before) = slave.dict_len
  /\ \E i \in EntriesOf(env.before, _hash(env.name)) :
       env.before[i].value = "echo"
  /\ DispatchIndex(slave.dict, _hash(env.name)) # 0
  /\ slave.dict[DispatchIndex(slave.dict, _hash(env.name))].value = "mark"

(* ---------------------------- one-shot hook --------------------------- *)

\* schedule_callback: __schedule_cb = callback
schedule_callback(s, callback) == [s EXCEPT !.schedule_cb = callback]

\* loop(): if (__put_result(...) && __schedule_cb) __schedule_cb();
HookRuns(s, put) == put /\ s.schedule_cb

\* loop() alone: whether __get_command and __put_result succeed is an input
\* of every iteration, and schedule_callback is called by the application
\* between two iterations (or by __loop_cb), by a handler, or by the hook
\* itself.  env is history: env.arms counts the calls of schedule_callback,
\* env.held is the number of the call that armed the hook now held (0: none),
\* env.fired[k] counts the runs of the hook armed by call k; env.got, env.put
\* and env.ran describe the iteration that ended last, env.last the last step.
HookInit ==
  /\ master = MasterInit
  /\ slave = SlaveInit
  /\ m2s = <<>>
  /\ s2m = <<>>
  /\ env = [arms |-> 0, held |-> 0, fired |-> [k \in 1..MaxArms |-> 0],
            got |-> FALSE, put |-> FALSE, ran |-> FALSE, last |-> "none"]

\* the history of a call of schedule_callback
Armed(e) == [e EXCEPT !.arms = @ + 1, !.held = e.arms + 1]

\* the application arms the hook between two iterations
HArmOutside ==
  /\ slave.pc = "gc_loop"
  /\ env.arms < MaxArms
  /\ slave' = schedule_callback(slave, TRUE)
  /\ env' = [Armed(env) EXCEPT !.last = "arm"]
  /\ UNCHANGED <<master, m2s, s2m>>

\* loop(): __get_command returns
HGetCommand(ok) ==
  /\ slave.pc = "gc_loop"
  /\ slave' = IF ok THEN [slave EXCEPT !.pc = "dispatch"] ELSE NextIteration(slave)
  /\ env' = [env EXCEPT !.got = ok, !.put = FALSE, !.ran = FALSE,
                        !.last = IF ok THEN "get" ELSE "getfail"]
  /\ UNCHANGED <<master, m2s, s2m>>

\* loop(): the handler runs, and may call schedule_callback
HHandler(arm) ==
  /\ slave.pc = "dispatch"
  /\ arm => env.arms < MaxArms
  /\ slave' = [(IF arm THEN schedule_callback(slave, TRUE) ELSE slave)
                 EXCEPT !.pc = "pr_loop"]
  /\ env' = [(IF arm THEN Armed(env) ELSE env) EXCEPT !.last = "handler"]
  /\ UNCHANGED <<master, m2s, s2m>>

\* loop(): __put_result returns, the hook runs if the result was put and a
\* hook is held (and may call schedule_callback itself), and
\* __schedule_cb = NULL
HPutResult(put, rearm) ==
  /\ slave.pc = "pr_loop"
  /\ rearm => (HookRuns(slave, put) /\ env.arms < MaxArms)
  /\ LET ran == HookRuns(slave, put)
         e1 == IF ran THEN [env EXCEPT !.fired[env.held] = @ + 1] ELSE env
         e2 == IF rearm THEN Armed(e1) ELSE e1
         s2 == IF rearm THEN schedule_callback(slave, TRUE) ELSE slave
         s3 == AfterPutResult(s2, put)
     IN  /\ slave' = s3
         /\ env' = [e2 EXCEPT !.put = put, !.ran = ran, !.last = "put",
                              !.held = IF s3.schedule_cb THEN @ ELSE 0]
  /\ UNCHANGED <<master, m2s, s2m>>

HookNext ==
  \/ HArmOutside
  \/ \E ok \in BOOLEAN : HGetCommand(ok)
  \/ \E arm \in BOOLEAN : HHandler(arm)
  \/ \E put \in BOOLEAN, rearm \in BOOLEAN : HPutResult(put, rearm)

HookSpec == HookInit /\ [][HookNext]_vars

\* C12: the one-shot hook runs only in an iteration of loop() whose
\* __get_command and __put_result returned true, and the hook armed by one
\* call of schedule_callback runs at most once, wherever the call was made
\* (by the application, by a handler, by the hook itself).
C12_HookAtMostOncePerArm ==
  /\ env.ran => (env.got /\ env.put)
  /\ \A k \in 1..MaxArms : env.fired[k] <= 1
  /\ \A k \in 1..MaxArms : (k > env.arms) => env.fired[k] = 0

\* the hook has run, armed itself again, and that arming was dropped
C12_Witness ==
  /\ env.ran /\ env.put /\ env.arms = 2 /\ env.held = 0
  /\ env.fired[1] = 1 /\ env.fired[2] = 0 /\ env.last = "put"

\* C19: an iteration of loop() in which __get_command succeeded ends with
\* the hook disarmed, whether __put_result succeeded or not and whether the
\* hook ran or not; an iteration in which __get_command fails leaves the hook
\* as it was.
C19_HookClearedAfterCommand ==
  /\ [][(slave.pc = "pr_loop" /\ slave'.pc # "pr_loop") =>
          (slave'.pc = "gc_loop" /\ ~slave'.schedule_cb /\ env'.held = 0)]_vars
  /\ [][(slave.pc = "gc_loop" /\ env'.last = "getfail") =>
          (slave'.pc = "gc_loop" /\ slave'.schedule_cb = slave.schedule_cb /\
           env'.held = env.held)]_vars
  /\ []((env.last \in {"put", "getfail"} /\ env.got) => ~slave.schedule_cb)

\* a hook armed by the application is still held after __get_command failed
C19_Witness ==
  /\ env.last = "getfail" /\ slave.schedule_cb /\ env.held = 1
  /\ env.fired[1] = 0

(* ---------------------------- packet codec ---------------------------- *)

\* static const uint16_t __crc_16_table[256]
__crc_16_table ==
  <<
   0, 4129, 8258, 12387, 16516, 20645, 24774, 28903,
   33032, 37161, 41290, 45419, 49548, 53677, 57806, 61935,
   4657, 528, 12915, 8786, 21173, 17044, 29431, 25302,
   37689, 33560, 45947, 41818, 54205, 50076, 62463, 58334,
   9314, 13379, 1056, 5121, 25830, 29895, 17572, 21637,
   42346, 46411, 34088, 38153, 58862, 62927, 50604, 54669,
   13907, 9842, 5649, 1584, 30423, 26358, 22165, 18100,
   46939, 42874, 38681, 34616, 63455, 59390, 55197, 51132,
   18628, 22757, 26758, 30887, 2112, 6241, 10242, 14371,
   51660, 55789, 59790, 63919, 35144, 39273, 43274, 47403,
   23285, 19156, 31415, 27286, 6769, 2640, 14899, 10770,
   56317, 52188, 64447, 60318, 39801, 35672, 47931, 43802,
   27814, 31879, 19684, 23749, 11298, 15363, 3168, 7233,
   60846, 64911, 52716, 56781, 44330, 48395, 36200, 40265,
   32407, 28342, 24277, 20212, 15891, 11826, 7761, 3696,
   65439, 61374, 57309, 53244, 48923, 44858, 40793, 36728,
   37256, 33193, 45514, 41451, 53516, 49453, 61774, 57711,
   4224, 161, 12482, 8419, 20484, 16421, 28742, 24679,
   33721, 37784, 41979, 46042, 49981, 54044, 58239, 62302,
   689, 4752, 8947, 13010, 16949, 21012, 25207, 29270,
   46570, 42443, 38312, 34185, 62830, 58703, 54572, 50445,
   13538, 9411, 5280, 1153, 29798, 25671, 21540, 17413,
   42971, 47098, 34713, 38840, 59231, 63358, 50973, 55100,
   9939, 14066, 1681, 5808, 26199, 30326, 17941, 22068,
   55628, 51565, 63758, 59695, 39368, 35305, 47498, 43435,
   22596, 18533, 30726, 26663, 6336, 2273, 14466, 10403,
   52093, 56156, 60223, 64286, 35833, 39896, 43963, 48026,
   19061, 23124, 27191, 31254, 2801, 6864, 10931, 14994,
   64814, 60687, 56684, 52557, 48554, 44427, 40424, 36297,
   31782, 27655, 23652, 19525, 15522, 11395, 7392, 3265,
   61215, 65342, 53085, 57212, 44955, 49082, 36825, 40952,
   28183, 32310, 20053, 24180, 11923, 16050, 3793, 7920 >>

\* a checksum that reads no byte
__crc_16_mutant(data) == 65535

\* __crc_16: crc = 0xFFFF, then for every byte
\* crc = __crc_16_table[((crc >> 8) ^ data[i]) & 0xff] ^ (crc << 8), in 16 bits
RECURSIVE crc_from(_, _, _)
crc_from(data, i, crc) ==
  IF i > Len(data) THEN crc
  ELSE crc_from(data, i + 1,
                BitXor(__crc_16_table[(BitXor(crc \div 256, data[i]) % 256) + 1],
                       (crc * 256) % 65536))

__crc_16(data) == crc_from(data, 1, 65535)

\* _set_packet on bytes: the magic (little-endian), the payload, the CRC of
\* both (little-endian)
_set_packet_bytes(magic_value, data) ==
  LET body == <<magic_value % 256, (magic_value \div 256) % 256>> \o data
      crc == __crc_16(body)
  IN  body \o <<crc % 256, (crc \div 256) % 256>>

\* _get_packet on the size bytes that get_bytes has read
_get_packet_bytes(buff, magic_value, size) ==
  /\ Len(buff) = size
  /\ LET magic == buff[1] + 256 * buff[2]
         crc == buff[size - 1] + 256 * buff[size]
     IN  magic = magic_value /\ crc = __crc_16(SubSeq(buff, 1, size - 2))

\* the magics of the four phases
Magics ==
  {_COMMAND_HEADER_PACKET_MAGIC, _COMMAND_DATA_PACKET_MAGIC,
   _RESULT_HEADER_PACKET_MAGIC, _RESULT_DATA_PACKET_MAGIC}

\* payload bytes
PayloadBytes == {0, 1, 255}

Payloads == UNION {[1..n -> PayloadBytes] : n \in 0..MaxPayload}

\* a frame is encoded, at most one of its bytes is changed on the wire (m2s),
\* and the frame is decoded with the magic and the size of the encoder
CodecInit ==
  /\ master = MasterInit
  /\ slave = SlaveNew
  /\ s2m = <<>>
  /\ \E magic_value \in Magics, data \in Payloads :
       /\ m2s = _set_packet_bytes(magic_value, data)
       /\ env = [magic |-> magic_value, data |-> data, changed |-> 0,
                 ok |-> _get_packet_bytes(_set_packet_bytes(magic_value, data),
                                          magic_value, Len(data) + 4)]

ChangeByte(pos, val) ==
  /\ env.changed = 0
  /\ pos \in 1..Len(m2s)
  /\ m2s[pos] # val
  /\ m2s' = [m2s EXCEPT ![pos] = val]
  /\ env' = [env EXCEPT !.changed = pos,
                        !.ok = _get_packet_bytes(m2s', env.magic, Len(env.data) + 4)]
  /\ UNCHANGED <<master, slave, s2m>>

CodecNext == \E pos \in 1..(MaxPayload + 4), val \in 0..255 : ChangeByte(pos, val)

CodecSpec == CodecInit /\ [][CodecNext]_vars

\* C13: the frame that _set_packet writes is accepted by _get_packet with the
\* same magic and the size len + 4, and with any single byte changed (of the
\* magic, of the payload, of the CRC) it is rejected.
C13_CrcRoundTrip ==
  /\ Len(m2s) = Len(env.data) + 4
  /\ env.changed = 0 => env.ok
  /\ env.changed # 0 => ~env.ok

\* a byte of the payload of a two-byte frame was changed
C13_Witness ==
  /\ env.changed = 3 /\ Len(env.data) = 2 /\ ~env.ok
  /\ env.magic = _COMMAND_DATA_PACKET_MAGIC

(* --------------------------- _hash overloads -------------------------- *)

\* the operand c of h ^ c as a uint32_t: an unsigned char is zero-extended, a
\* char is sign-extended where the build has char signed
CharWord(c, is_signed) ==
  IF is_signed /\ c >= 128 THEN <<Half - 1, Half - 256 + c>> ELSE <<0, c>>

Xor32(h, w) == <<BitXor(h[1], w[1]), BitXor(h[2], w[2])>>

\* h = ((h << 5) + h) ^ c
HashXor(h, c, is_signed) == Xor32(Times33(h), CharWord(c, is_signed))

\* the loop of an overload: bytes name[i..], at most length of them, up to
\* the first NUL
RECURSIVE hash_loop(_, _, _, _, _)
hash_loop(name, i, length, h, is_signed) ==
  IF i > length \/ i > Len(name) \/ name[i] = 0 THEN h
  ELSE hash_loop(name, i + 1, length, HashXor(h, name[i], is_signed), is_signed)

\* _hash(const __FlashStringHelper *name): unsigned char c = pgm_read_byte(p++)
_hash_flash(name) == hash_loop(name, 1, Len(name), HashSeed, FALSE)

\* _hash(const char *name, size_t length): char c = *name++
_hash_length(name, length, char_signed) ==
  hash_loop(name, 1, length, HashSeed, char_signed)

\* _hash(const char *name): char c = *name++
_hash_cstring(name, char_signed) ==
  hash_loop(name, 1, Len(name), HashSeed, char_signed)

\* the reference: djb2 with xor over the unsigned bytes, modulo 2^32
RECURSIVE hash_reference(_, _, _)
hash_reference(name, i, h) ==
  IF i > Len(name) \/ name[i] = 0 THEN h
  ELSE hash_reference(name, i + 1, Xor32(Times33(h), <<0, name[i]>>))

\* the bytes of a name: NUL, an ASCII letter, 0x80 and 0xFF
NameBytes == {0, 97, 128, 255}

HashNames == UNION {[1..n -> NameBytes] : n \in 0..MaxName}

\* a name is hashed by every overload, in a build whose char is signed or
\* unsigned; env keeps the values
HashInit ==
  /\ master = MasterInit
  /\ slave = SlaveNew
  /\ m2s = <<>>
  /\ s2m = <<>>
  /\ \E name \in HashNames, char_signed \in BOOLEAN :
       env = [name |-> name, char_signed |-> char_signed, done |-> FALSE,
              flash |-> NoHash, length |-> NoHash, cstring |-> NoHash]

ApplyHash ==
  /\ ~env.done
  /\ env' = [env EXCEPT
               !.done = TRUE,
               !.flash = _hash_flash(env.name),
               !.length = _hash_length(env.name, Len(env.name), env.char_signed),
               !.cstring = _hash_cstring(env.name, env.char_signed)]
  /\ UNCHANGED <<master, slave, m2s, s2m>>

HashNext == ApplyHash

HashSpec == HashInit /\ [][HashNext]_vars

\* C14: for every name, the overloads of _hash that the master uses (flash
\* string, pointer and length, C string) and the C-string overload that
\* register_callback uses yield the same value, the reference hash over the
\* unsigned bytes.
C14_HashOverloadsAgree ==
  env.done =>
    /\ env.flash = hash_reference(env.name, 1, HashSeed)
    /\ env.length = env.flash
    /\ env.cstring = env.flash

(* ---------------------- a slave with a small buffer ------------------- *)

\* the buff_len of a slave that holds no payload at all
tight_buff_len == 4

\* the slave's buffer is smaller than the master's, and the application may
\* have called schedule_callback before loop()
TightInit ==
  /\ master = MasterInit
  /\ \E armed \in BOOLEAN :
       slave = [SlaveInit EXCEPT !.buff_len = tight_buff_len, !.schedule_cb = armed]
  /\ m2s = <<>>
  /\ s2m = <<>>
  /\ env \in {[timely |-> t, faults |-> MaxFaults, sput |-> FALSE, lost |-> "none"] :
               t \in BOOLEAN}

TightSpec == TightInit /\ [][Next]_vars

\* the slave reads a valid COMMAND_HEADER whose cmd_len + 4 exceeds buff_len
ReadsOversizeCommand ==
  /\ slave.pc = "gc_hdr"
  /\ m2s # <<>>
  /\ m2s' = Tail(m2s)
  /\ slave' # slave
  /\ Genuine(Head(m2s), _COMMAND_HEADER_PACKET_MAGIC, 12)
  /\ unpack_unsigned_long(Head(m2s), 2) + 4 > slave.buff_len

\* C24: when the slave receives a valid COMMAND_HEADER with cmd_len + 4 >
\* buff_len, __get_command returns false at once: no COMMAND_HEADER ack is
\* sent, no handler is invoked, no result phase runs (the next step is the
\* next iteration's __get_command) and the one-shot hook is left as it was.
C24_OversizeCommandRejected ==
  [][ReadsOversizeCommand =>
       /\ s2m' = s2m
       /\ slave'.pc = "gc_loop"
       /\ slave'.elapsed = 0
       /\ slave'.invoked = slave.invoked
       /\ slave'.out_data = <<>>
       /\ slave'.schedule_cb = slave.schedule_cb
       /\ slave'.dict = slave.dict]_vars

\* C24: an oversize command has been refused, and the hook is still armed
C24_Witness ==
  /\ slave.did = "too_big"
  /\ slave.pc = "gc_loop"
  /\ slave.schedule_cb
  /\ master.pc = "pc_hdr"
  /\ master.req = <<1>>

\* C26: for a single call of the master the slave invokes the matching
\* handler at most once, also when acknowledgement frames (the COMMAND_DATA
\* ack in particular) are lost and the master puts the command again while
\* the slave has dispatched it already.
C26_HandlerOncePerCall == slave.runs.n <= 1

(* ------------------- bulk data after the header ack ------------------- *)

\* C18: within an attempt of __put_command the master transmits the
\* COMMAND_DATA frame only after it has received a valid COMMAND_HEADER ack
\* in that attempt, and within an attempt of __get_result it transmits the
\* RESULT_DATA request only after it has received a valid RESULT_HEADER ack
\* in that attempt: the frame goes out in the step that takes the genuine
\* ack from the channel, after this attempt's header.
C18_DataAfterHeaderAck ==
  [][/\ (master'.did = "data" /\ master.did # "data") =>
         /\ master.pc = "pc_hdr"
         /\ master.did = "hdr"
         /\ master'.pc = "pc_data"
         /\ s2m # <<>>
         /\ Genuine(Head(s2m), _COMMAND_HEADER_PACKET_MAGIC, 4)
         /\ s2m' = Tail(s2m)
     /\ (master'.did = "rd_req" /\ master.did # "rd_req") =>
         /\ master.pc = "gr_hdr"
         /\ master.did = "rh_req"
         /\ master'.pc = "gr_data"
         /\ s2m # <<>>
         /\ Genuine(Head(s2m), _RESULT_HEADER_PACKET_MAGIC, 8)
         /\ s2m' = Tail(s2m)
     /\ master'.pc = "pc_data" => master'.did = "data"
     /\ master'.pc = "gr_data" => master'.did = "rd_req"]_vars

\* C18: the bulk data of a later attempt, after an attempt that failed
C18_Witness ==
  /\ master.pc = "pc_data"
  /\ master.did = "data"
  /\ master.get_short > _get_short_timeout_reset

(* ------------------- the short timeouts, in 32 bits ------------------- *)
(* An unsigned long is <<upper 16 bits, lower 16 bits>>.                   *)

\* s * 6, modulo 2^32
Times6(s) ==
  LET lo == s[2] * 6
      hi == s[1] * 6 + lo \div Half
  IN  <<hi % Half, lo % Half>>

\* s / 4
Div4(s) == <<s[1] \div 4, (s[1] % 4) * (Half \div 4) + s[2] \div 4>>

Less32(a, b) == a[1] < b[1] \/ (a[1] = b[1] /\ a[2] < b[2])

\* min(a, b)
Min32(a, b) == IF Less32(a, b) THEN a ELSE b

\* min((_put_short_timeout * 6) / 4, timeout), in unsigned long
MasterGrow32(s, timeout) == Min32(Div4(Times6(s)), timeout)

\* the total budgets: a few ms, a second, the default of five, and the
\* largest unsigned long
Budgets == {<<0, 1>>, <<0, 2>>, <<0, 3>>, <<0, 11>>, <<0, 1000>>, <<0, 5000>>,
            <<Half - 1, Half - 1>>}

\* __put_command or __get_result at its entry: both short timeouts are reset
GrowInit ==
  /\ master = MasterInit
  /\ slave = SlaveNew
  /\ m2s = <<>>
  /\ s2m = <<>>
  /\ \E op \in {"__put_command", "__get_result"}, timeout \in Budgets :
       env = [op |-> op, timeout |-> timeout, attempts |-> 0,
              put_short |-> <<0, _put_short_timeout_reset>>,
              get_short |-> <<0, _get_short_timeout_reset>>]

\* an attempt fails (a wrong frame is read, or a get times out) within the
\* budget: "Avoid timeout livelocking"
AttemptFails ==
  /\ env.attempts < MaxAttempts
  /\ env' = [env EXCEPT !.attempts = @ + 1,
                        !.put_short = MasterGrow32(@, env.timeout),
                        !.get_short = MasterGrow32(@, env.timeout)]
  /\ UNCHANGED <<master, slave, m2s, s2m>>

GrowNext == AttemptFails

GrowSpec == GrowInit /\ [][GrowNext]_vars

GrowsTo(s, t, timeout) ==
  /\ ~Less32(timeout, t)
  /\ t = timeout \/ Less32(s, t)

\* C23: in __put_command and __get_result both short timeouts start at their
\* reset value and, after each failed attempt, become min((s * 6) / 4,
\* timeout); after a failed attempt neither exceeds the total budget, and
\* each grows strictly until it reaches that cap.
C23_ShortTimeoutsGrow ==
  /\ [](env.attempts = 0 =>
          /\ env.put_short = <<0, _put_short_timeout_reset>>
          /\ env.get_short = <<0, _get_short_timeout_reset>>)
  /\ [][env'.attempts = env.attempts + 1 =>
          /\ GrowsTo(env.put_short, env'.put_short, env.timeout)
          /\ GrowsTo(env.get_short, env'.get_short, env.timeout)]_vars

(* ----------------------- get_bytes of the transports ------------------ *)

\* a _same that takes a buffer of one byte for varied
_same_mutant(data) ==
  Len(data) > 1 /\ \A i \in 2..Len(data) : data[i] = data[i - 1]

\* rpc::_same: the buffer is not empty and every byte equals the one before
_same(data) ==
  Len(data) # 0 /\ \A i \in 2..Len(data) : data[i] = data[i - 1]

Transports ==
  {"can_master", "can_slave", "i2c_master", "i2c_slave", "spi_master",
   "hardware_serial_uart_master", "hardware_serial_uart_slave",
   "software_serial_uart_master", "software_serial_uart_slave"}

\* the transports whose get_bytes ends with !_same(buff, size)
SameGuarded == {"i2c_master", "spi_master"}

\* get_bytes(buff, size, timeout) of a transport, wire being the bytes that
\* arrive in time: buff holds the first size of them, and the result says
\* that all size bytes came and, on the guarded transports, are not all equal
get_bytes(transport, wire, size) ==
  /\ Len(wire) >= size
  /\ transport \in SameGuarded => ~_same(SubSeq(wire, 1, size))

\* _get_packet(magic_value, buff, size, timeout) over a transport
_get_packet_over(transport, wire, magic_value, size) ==
  /\ get_bytes(transport, wire, size)
  /\ _get_packet_bytes(SubSeq(wire, 1, size), magic_value, size)

\* what arrives: any bytes, or a frame
WireBytes == {0, 255}

Wires ==
  UNION {[1..n -> WireBytes] : n \in 0..MaxBuf}
    \cup {_set_packet_bytes(m, <<>>) : m \in Magics}

GetInit ==
  /\ master = MasterInit
  /\ slave = SlaveNew
  /\ s2m = <<>>
  /\ \E wire \in Wires : m2s = wire
  /\ \E transport \in Transports, size \in 0..MaxBuf :
       env = [transport |-> transport, size |-> size, done |-> FALSE,
              ok |-> FALSE, valid |-> {}]

GetBytes ==
  /\ ~env.done
  /\ env' = [env EXCEPT
               !.done = TRUE,
               !.ok = get_bytes(env.transport, m2s, env.size),
               !.valid = {m \in Magics :
                            env.size >= 4 /\
                            _get_packet_over(env.transport, m2s, m, env.size)}]
  /\ UNCHANGED <<master, slave, m2s, s2m>>

GetNext == GetBytes

GetSpec == GetInit /\ [][GetNext]_vars

\* the size bytes that have arrived are all equal
AllEqual(wire, size) == \A i, j \in 1..size : wire[i] = wire[j]

\* C22: on the SPI and I2C master transports get_bytes reports failure for
\* every received buffer of size >= 1 whose bytes are all equal, and such a
\* buffer is never validated as a frame; the UART and CAN transports never
\* reject a fully received buffer because of its content.
C22_RepeatByteGuard ==
  (env.done /\ Len(m2s) >= env.size) =>
    /\ (env.transport \in {"spi_master", "i2c_master"} /\ env.size >= 1 /\
         AllEqual(m2s, env.size)) => (~env.ok /\ env.valid = {})
    /\ env.transport \in {"can_master", "can_slave",
                          "hardware_serial_uart_master", "hardware_serial_uart_slave",
                          "software_serial_uart_master", "software_serial_uart_slave"}
         => env.ok

\* C22: a buffer of one byte refused on the SPI master
C22_Witness ==
  /\ env.done
  /\ env.transport = "spi_master"
  /\ env.size = 1
  /\ Len(m2s) >= 1
  /\ ~env.ok

(* ------------------ the length a header carries, in 32 bits ----------- *)

\* unpack_unsigned_long(buf + 2 + offset) + 4, in uint32_t
Add4(len) ==
  LET lo == len[2] + 4
  IN  <<(len[1] + lo \div Half) % Half, lo % Half>>

\* in_command_data_buf_len - 4, in uint32_t
Sub4(n) ==
  IF n[2] >= 4 THEN <<n[1], n[2] - 4>>
  ELSE <<(n[1] + Half - 1) % Half, n[2] + Half - 4>>

\* the four bytes of a uint32_t, least significant first
pack32(n) == <<n[2] % 256, n[2] \div 256, n[1] % 256, n[1] \div 256>>

\* unpack_unsigned_long(buf + offset)
unpack32(buf, offset) ==
  <<buf[offset + 3] + 256 * buf[offset + 4], buf[offset + 1] + 256 * buf[offset + 2]>>

\* _buff_len < in_command_data_buf_len
TooBig32(buff_len, data_buf_len) == data_buf_len[1] > 0 \/ buff_len < data_buf_len[2]

\* _get_packet on the size bytes read: below two bytes buff[size - 2] lies
\* before the buffer and __crc_16(buff, size - 2) runs over a length that has
\* wrapped, so the result is whatever the memory around the buffer makes it
GetPacketOutcomes(buff, magic_value, size) ==
  IF size < 2 THEN BOOLEAN ELSE {_get_packet_bytes(buff, magic_value, size)}

\* *size = in_command_data_buf_len - 4, in a size_t of 16 or of 32 bits
AsSizeT(n, size_bits) == IF size_bits = 16 THEN <<0, n[2]>> ELSE n

\* the lengths a header carries: small ones, and the ones next to 2^16 and
\* to 2^32
Lengths ==
  {<<0, n>> : n \in 0..3} \cup {<<0, Half - 1>>, <<1, 0>>}
    \cup {<<Half - 1, Half - n>> : n \in 1..5}

\* the receivers: the slave in __get_command, the master in __get_result
Receivers ==
  {[side |-> "slave", buff_len |-> slave_buff_len, offset |-> 6,
    header |-> _COMMAND_HEADER_PACKET_MAGIC, data |-> _COMMAND_DATA_PACKET_MAGIC],
   [side |-> "master", buff_len |-> master_buff_len, offset |-> 2,
    header |-> _RESULT_HEADER_PACKET_MAGIC, data |-> _RESULT_DATA_PACKET_MAGIC]}

\* the header frame with this length
HeaderBytes(r, len) ==
  _set_packet_bytes(r.header,
                    IF r.side = "slave" THEN pack32(<<0, 0>>) \o pack32(len)
                    ELSE pack32(len))

\* what arrives after the header: a data frame, or a few bytes
DataWires(r) ==
  {_set_packet_bytes(r.data, d) : d \in Payloads}
    \cup UNION {[1..n -> WireBytes] : n \in 0..3}

\* s2m holds the header frame, m2s what arrives after it
LenInit ==
  /\ master = MasterInit
  /\ slave = SlaveNew
  /\ \E r \in Receivers, len \in Lengths, size_bits \in {16, 32} :
       /\ s2m = HeaderBytes(r, len)
       /\ m2s \in DataWires(r)
       /\ env = [receiver |-> r, size_bits |-> size_bits, stage |-> "header",
                 data_buf_len |-> <<0, 0>>, result |-> "", size |-> <<0, 0>>]

\* _get_packet of the header, the length plus 4, the size test
ReadHeader ==
  /\ env.stage = "header"
  /\ LET r == env.receiver
         ok == _get_packet_bytes(s2m, r.header, Len(s2m))
         n == Add4(unpack32(s2m, r.offset))
     IN  env' = IF ~ok THEN [env EXCEPT !.stage = "done", !.result = "retry"]
                ELSE IF TooBig32(r.buff_len, n)
                THEN [env EXCEPT !.stage = "done", !.result = "false",
                                 !.data_buf_len = n]
                ELSE [env EXCEPT !.stage = "data", !.data_buf_len = n]
  /\ UNCHANGED <<master, slave, m2s, s2m>>

\* _get_packet of the data frame into _buff, and the size handed out
ReadData ==
  /\ env.stage = "data"
  /\ LET r == env.receiver
         n == env.data_buf_len[2]
     IN  IF Len(m2s) < n
         THEN env' = [env EXCEPT !.stage = "done", !.result = "retry"]
         ELSE \E ok \in GetPacketOutcomes(SubSeq(m2s, 1, n), r.data, n) :
                env' = IF ok
                       THEN [env EXCEPT !.stage = "done", !.result = "true",
                                        !.size = AsSizeT(Sub4(env.data_buf_len),
                                                         env.size_bits)]
                       ELSE [env EXCEPT !.stage = "done", !.result = "retry"]
  /\ UNCHANGED <<master, slave, m2s, s2m>>

LenNext == ReadHeader \/ ReadData

LenSpec == LenInit /\ [][LenNext]_vars

\* C25: for every 32-bit length in a CRC-valid COMMAND_HEADER (slave) or
\* RESULT_HEADER ack (master), the values within 4 of 2^32 included, the
\* receiver either fails or receives a data frame of at least 4 and at most
\* buff_len bytes and reports a payload size of at most buff_len - 4.
C25_LengthWithinBuffer ==
  /\ env.stage = "data" => env.data_buf_len[1] = 0
  /\ env.result = "true" =>
       /\ env.data_buf_len[1] = 0
       /\ env.data_buf_len[2] >= 4
       /\ env.data_buf_len[2] <= env.receiver.buff_len
       /\ env.size[1] = 0
       /\ env.size[2] <= env.receiver.buff_len - 4

(* ------------------------ stream reader / writer ---------------------- *)
(* The reader runs in master, the writer in slave; m2s and s2m are the    *)
(* bytes under way from the reader to the writer and back.  A get of n    *)
(* bytes takes the first n bytes of its channel once they are there, and  *)
(* may time out while they are not; a put appends its bytes.              *)

STREAM_DATA == 21550
STREAM_WRITER_SETUP == 60918
LfsrSeed == 255
LfsrTaps == 184

\* lfsr = (lfsr >> 1) ^ ((lfsr & 1) ? 0xB8 : 0x00)
lfsr_mutant(s) == s \div 2

lfsr(s) == BitXor(s \div 2, IF s % 2 = 1 THEN LfsrTaps ELSE 0)

\* the four bytes of an unsigned long below 2^16, as _set_packet copies them
pack_unsigned_long(n) == <<n % 256, n \div 256, 0, 0>>

\* unpack_unsigned_long(packet + 2), as <<upper 16 bits, lower 16 bits>>
unpack_stream_size(packet) ==
  <<packet[5] + 256 * packet[6], packet[3] + 256 * packet[4]>>

\* _buff_len < size
StreamTooBig(buff_len, size) == size[1] > 0 \/ buff_len < size[2]

\* the header check of stream_reader and stream_writer: return if the magic
\* is another one and the CRC is another one
StreamHeaderRejected(packet, magic_value) ==
  LET magic == packet[1] + 256 * packet[2]
      crc == packet[7] + 256 * packet[8]
  IN  magic # magic_value /\ crc # __crc_16(SubSeq(packet, 1, 6))

\* max(min(unpack_unsigned_long(packet + 2), _stream_writer_queue_depth_max), 1)
queue_depth_mutant(size, depth_max) ==
  IF size[1] > 0 THEN depth_max ELSE Min(size[2], depth_max)

queue_depth(size, depth_max) ==
  LET m == IF size[1] > 0 THEN depth_max ELSE Min(size[2], depth_max)
  IN  IF m > 1 THEN m ELSE 1

\* a writer that asks for an acknowledgement while it still holds all of its
\* credits
NeedsAck_mutant(w) == w.credits <= w.queue_depth

\* credits <= (queue_depth / 2)
NeedsAck(w) == w.credits <= w.queue_depth \div 2

\* credits -= 1
CreditsAfterSend_mutant(credits) == credits

CreditsAfterSend(credits) == credits - 1

\* _stream_writer_queue_depth_max: 255 (rpc::rpc), 1 on the half-duplex
\* transports, and a value in between
DepthCaps == {1, 2, 255}

\* lengths the writer's callback hands out
StreamLens == {0, MaxPayload}

\* an 8-byte frame of a call that is still under way when the stream starts
StaleFrame == _set_packet_bytes(_RESULT_HEADER_PACKET_MAGIC, pack_unsigned_long(0))

\* the transports a writer of this cap runs on: the cap is 1 on the SPI and
\* I2C transports and 255 on the others.  The reader is the peer; its
\* get_bytes does not look at the bytes.
WriterTransports(m) ==
  IF m = 1 THEN {"spi_master", "i2c_slave"} ELSE {"hardware_serial_uart_slave"}

StreamInit ==
  /\ \E q \in 0..MaxDepth :
       master = [pc |-> "r_setup", queue_depth |-> q, tx_lfsr |-> LfsrSeed,
                 packet |-> <<>>, size |-> <<0, 0>>, acked |-> <<>>]
  /\ \E m \in DepthCaps : \E transport \in WriterTransports(m) :
       slave = [pc |-> "w_setup", depth_max |-> m, transport |-> transport,
                packet |-> <<>>,
                queue_depth |-> 0, rx_lfsr |-> LfsrSeed, credits |-> 0,
                sent |-> 0, acks |-> <<>>]
  /\ m2s = <<>>
  /\ s2m \in {<<>>, StaleFrame}
  /\ env = [faults |-> 0]

Take(chan, n) == SubSeq(chan, 1, n)
Drop(chan, n) == SubSeq(chan, n + 1, Len(chan))

\* stream_reader: the setup frame
RSetup ==
  /\ master.pc = "r_setup"
  /\ m2s' = m2s \o _set_packet_bytes(STREAM_WRITER_SETUP,
                                     pack_unsigned_long(master.queue_depth))
  /\ master' = [master EXCEPT !.pc = "r_hdr", !.tx_lfsr = LfsrSeed]
  /\ UNCHANGED <<slave, s2m, env>>

\* stream_reader: the header of the next frame
RHeader ==
  /\ master.pc = "r_hdr"
  /\ Len(s2m) >= 8
  /\ LET packet == Take(s2m, 8)
         size == unpack_stream_size(packet)
     IN  /\ s2m' = Drop(s2m, 8)
         /\ master' = [master EXCEPT
               !.packet = packet,
               !.size = size,
               !.pc = IF StreamHeaderRejected(packet, STREAM_DATA) THEN "r_done"
                      ELSE IF StreamTooBig(master_buff_len, size) THEN "r_done"
                      ELSE "r_data"]
  /\ UNCHANGED <<slave, m2s, env>>

\* stream_reader: the payload, the callback, the acknowledgement
RData ==
  /\ master.pc = "r_data"
  /\ Len(s2m) >= master.size[2]
  /\ s2m' = Drop(s2m, master.size[2])
  /\ m2s' = Append(m2s, master.tx_lfsr)
  /\ master' = [master EXCEPT !.pc = "r_hdr",
                              !.acked = Append(@, master.tx_lfsr),
                              !.tx_lfsr = lfsr(@)]
  /\ UNCHANGED <<slave, env>>

\* stream_reader: a _stream_get_bytes that times out
RTimeout ==
  /\ \/ master.pc = "r_hdr" /\ Len(s2m) < 8
     \/ master.pc = "r_data" /\ Len(s2m) < master.size[2]
  /\ master' = [master EXCEPT !.pc = "r_done"]
  /\ UNCHANGED <<slave, m2s, s2m, env>>

\* stream_writer: the setup frame
WSetup ==
  /\ slave.pc = "w_setup"
  /\ Len(m2s) >= 8
  /\ LET packet == Take(m2s, 8)
         depth == queue_depth(unpack_stream_size(packet), slave.depth_max)
     IN  /\ m2s' = Drop(m2s, 8)
         /\ slave' = IF \/ ~get_bytes(slave.transport, m2s, 8)
                        \/ StreamHeaderRejected(packet, STREAM_WRITER_SETUP)
                     THEN [slave EXCEPT !.packet = packet, !.pc = "w_done"]
                     ELSE [slave EXCEPT !.packet = packet, !.pc = "w_loop",
                                        !.queue_depth = depth,
                                        !.rx_lfsr = LfsrSeed,
                                        !.credits = depth]
  /\ UNCHANGED <<master, s2m, env>>

\* a writer that goes on whatever byte it is handed
WAck_mutant ==
  /\ slave.pc = "w_loop"
  /\ NeedsAck(slave)
  /\ Len(m2s) >= 1
  /\ m2s' = Tail(m2s)
  /\ slave' = [slave EXCEPT !.pc = "w_send",
                            !.acks = Append(@, Head(m2s)),
                            !.rx_lfsr = lfsr(@),
                            !.credits = @ + 1]
  /\ UNCHANGED <<master, s2m, env>>

\* stream_writer: if (credits <= queue_depth / 2), one acknowledgement:
\* return if _stream_get_bytes fails or the byte is not rx_lfsr
WAck ==
  /\ slave.pc = "w_loop"
  /\ NeedsAck(slave)
  /\ Len(m2s) >= 1
  /\ m2s' = Tail(m2s)
  /\ slave' = IF ~get_bytes(slave.transport, m2s, 1) \/ Head(m2s) # slave.rx_lfsr
              THEN [slave EXCEPT !.pc = "w_done"]
              ELSE [slave EXCEPT !.pc = "w_send",
                                 !.acks = Append(@, Head(m2s)),
                                 !.rx_lfsr = lfsr(@),
                                 !.credits = @ + 1]
  /\ UNCHANGED <<master, s2m, env>>

\* stream_writer: if (credits > 0), one frame: header, then payload
WSend ==
  /\ \/ slave.pc = "w_send"
     \/ slave.pc = "w_loop" /\ ~NeedsAck(slave)
  /\ slave.sent < MaxFrames
  /\ IF slave.credits > 0
     THEN \E out_data_len \in StreamLens :
            /\ s2m' = s2m \o _set_packet_bytes(STREAM_DATA,
                                               pack_unsigned_long(out_data_len))
                          \o [i \in 1..out_data_len |-> 0]
            /\ slave' = [slave EXCEPT !.pc = "w_loop",
                                      !.sent = @ + 1,
                                      !.credits = CreditsAfterSend(@)]
     ELSE /\ slave' = [slave EXCEPT !.pc = "w_loop"]
          /\ s2m' = s2m
  /\ UNCHANGED <<master, m2s, env>>

\* stream_writer: a _stream_get_bytes that times out
WTimeout ==
  /\ \/ slave.pc = "w_setup" /\ Len(m2s) < 8
     \/ slave.pc = "w_loop" /\ NeedsAck(slave) /\ m2s = <<>>
  /\ slave' = [slave EXCEPT !.pc = "w_done"]
  /\ UNCHANGED <<master, m2s, s2m, env>>

\* the transport has changed one of the bytes of the header that the reader
\* is about to get
ChangeS2M(pos, val) ==
  /\ env.faults < MaxFaults
  /\ master.pc = "r_hdr"
  /\ Len(s2m) >= 8
  /\ pos \in 1..8
  /\ s2m[pos] # val
  /\ s2m' = [s2m EXCEPT ![pos] = val]
  /\ env' = [env EXCEPT !.faults = @ + 1]
  /\ UNCHANGED <<master, slave, m2s>>

\* the bytes that the writer is about to get: the setup frame, or one
\* acknowledgement
WriterGets ==
  IF slave.pc = "w_setup" /\ Len(m2s) >= 8 THEN 8
  ELSE IF slave.pc = "w_loop" /\ NeedsAck(slave) /\ Len(m2s) >= 1 THEN 1
  ELSE 0

\* the transport has changed one of the bytes that the writer is about to get
ChangeM2S(pos, val) ==
  /\ env.faults < MaxFaults
  /\ pos \in 1..WriterGets
  /\ m2s[pos] # val
  /\ m2s' = [m2s EXCEPT ![pos] = val]
  /\ env' = [env EXCEPT !.faults = @ + 1]
  /\ UNCHANGED <<master, slave, s2m>>

\* the transport has lost the first of the bytes that the writer is about to
\* get
LoseM2S ==
  /\ env.faults < MaxFaults
  /\ WriterGets > 0
  /\ m2s' = Tail(m2s)
  /\ env' = [env EXCEPT !.faults = @ + 1]
  /\ UNCHANGED <<master, slave, s2m>>

StreamNext ==
  \/ RSetup
  \/ RHeader
  \/ RData
  \/ RTimeout
  \/ WSetup
  \/ WAck
  \/ WSend
  \/ WTimeout
  \/ \E pos \in 1..8, val \in PayloadBytes : ChangeS2M(pos, val)
  \/ \E pos \in 1..8, val \in PayloadBytes : ChangeM2S(pos, val)
  \/ LoseM2S

\* the streams on a transport that delivers every byte, in order and in time
OrderedInit ==
  /\ StreamInit
  /\ s2m = <<>>

OrderedNext ==
  \/ RSetup
  \/ RHeader
  \/ RData
  \/ WSetup
  \/ WAck
  \/ WSend

OrderedSpec == OrderedInit /\ [][OrderedNext]_vars

StreamSpec == StreamInit /\ [][StreamNext]_vars

(* ----------------------- claims about the streams --------------------- *)

SetupIntact ==
  slave.packet = _set_packet_bytes(STREAM_WRITER_SETUP,
                                   pack_unsigned_long(master.queue_depth))

\* the writer has accepted a setup frame
WriterStarted == slave.pc \in {"w_loop", "w_send"} \/ slave.queue_depth > 0

\* the first values of the register, from 255 on
LfsrSequence == <<255, 199, 219, 213, 210, 105, 140, 70, 35, 169, 236, 118>>

FollowsSequence(emitted, state, sequence) ==
  /\ \A i \in 1..Min(Len(emitted), Len(sequence)) : emitted[i] = sequence[i]
  /\ Len(emitted) < Len(sequence) => state = sequence[Len(emitted) + 1]

\* C15 (as the code has it): the acknowledgement bytes the stream reader
\* emits and the values the stream writer expects both follow the sequence
\* 255, 199, 219, 213, 210, ... that the update s = (s >> 1) ^ (s & 1 ? 0xB8 : 0)
\* yields from 255.
C15_LfsrSequence ==
  /\ FollowsSequence(master.acked, master.tx_lfsr, LfsrSequence)
  /\ FollowsSequence(slave.acks, slave.rx_lfsr, LfsrSequence)

\* C15: both ends have gone three steps along the sequence
C15_Witness == Len(master.acked) >= 3 /\ Len(slave.acks) >= 3

\* C15 as stated: the sequence is 255, 127, 191, 95, 175, ...
C15_StatedSequence ==
  /\ FollowsSequence(master.acked, master.tx_lfsr, <<255, 127, 191, 95, 175>>)
  /\ FollowsSequence(slave.acks, slave.rx_lfsr, <<255, 127, 191, 95, 175>>)

\* C16: in every state of a stream_writer with negotiated depth D, the frames
\* sent minus the acknowledgements accepted are at most D, and credits is
\* within 0..D (it never underflows).
C16_CreditsBounded ==
  WriterStarted =>
    /\ slave.sent - Len(slave.acks) <= slave.queue_depth
    /\ slave.credits \in 0..slave.queue_depth

\* C16: a writer of depth above 1 that has two frames outstanding, after an
\* acknowledgement, and waits for the next one
C16_Witness ==
  /\ slave.pc = "w_loop"
  /\ slave.queue_depth > 1
  /\ NeedsAck(slave)
  /\ Len(slave.acks) >= 1
  /\ slave.sent - Len(slave.acks) >= 2

\* max(min(q, m), 1), case by case
ExpectedDepth(q, m) == IF q = 0 THEN 1 ELSE IF q > m THEN m ELSE q

\* C17: for every requested depth q (0 and values above the cap included)
\* and writer cap m >= 1 the writer starts with credits = max(min(q, m), 1);
\* with m = 1 it has one frame outstanding at a time: it sends a frame only
\* when every frame before is acknowledged.
C17_NegotiatedCredits ==
  /\ [](WriterStarted /\ SetupIntact =>
          /\ slave.queue_depth = ExpectedDepth(master.queue_depth, slave.depth_max)
          /\ slave.credits =
               slave.queue_depth - slave.sent + Len(slave.acks))
  /\ [](WriterStarted /\ slave.depth_max = 1 =>
          slave.sent - Len(slave.acks) <= 1)
  /\ [][slave.depth_max = 1 /\ slave'.sent = slave.sent + 1 =>
          slave.sent = Len(slave.acks)]_vars

\* C17: depth 8 asked of a writer whose cap is 1, two frames sent
C17_Witness ==
  /\ SetupIntact
  /\ master.queue_depth = 8
  /\ slave.depth_max = 1
  /\ slave.credits = 0
  /\ slave.sent = 2
  /\ Len(slave.acks) = 1

\* C20: the stream reader goes on with a header (payload, callback, ack) only
\* if its magic is STREAM_DATA and its CRC is valid, and the stream writer
\* starts only if the magic of the setup frame is STREAM_WRITER_SETUP and its
\* CRC is valid.
C20_StreamHeadersChecked ==
  /\ master.pc = "r_data" => _get_packet_bytes(master.packet, STREAM_DATA, 8)
  /\ WriterStarted => _get_packet_bytes(slave.packet, STREAM_WRITER_SETUP, 8)

\* the writer is in _stream_get_bytes(packet, 1, 1000)
WriterWaits == slave.pc = "w_loop" /\ NeedsAck(slave)

\* the writer takes the byte at the head of the channel
WriterTakesByte == WriterWaits /\ m2s # <<>> /\ m2s' = Tail(m2s) /\ slave' # slave

\* C21: when the stream writer waits for an acknowledgement and the receive
\* fails (it times out, or the transport's get_bytes reports failure) or the
\* byte received differs from rx_lfsr, stream_writer returns: no callback and
\* no STREAM_DATA frame follows; a matching byte that is received advances
\* the LFSR by one step and adds exactly one credit.
C21_AckOrReturn ==
  /\ [][(WriterWaits /\ slave' # slave) =>
          IF /\ m2s # <<>>
             /\ get_bytes(slave.transport, m2s, 1)
             /\ Head(m2s) = slave.rx_lfsr
          THEN /\ m2s' = Tail(m2s)
               /\ slave'.pc = "w_send"
               /\ slave'.rx_lfsr =
                    BitXor(slave.rx_lfsr \div 2,
                           IF slave.rx_lfsr % 2 = 1 THEN 184 ELSE 0)
               /\ slave'.credits = slave.credits + 1
               /\ slave'.sent = slave.sent
          ELSE /\ slave'.pc = "w_done"
               /\ slave'.sent = slave.sent
               /\ slave'.credits = slave.credits
               /\ slave'.rx_lfsr = slave.rx_lfsr
               /\ s2m' = s2m]_vars
  /\ [][slave.pc = "w_done" => (slave' = slave /\ Len(s2m') <= Len(s2m))]_vars

\* C21: a writer that took one acknowledgement and returned at the next one,
\* a byte that was there and was not the one expected
C21_Witness ==
  /\ slave.pc = "w_done"
  /\ slave.transport = "hardware_serial_uart_slave"
  /\ Len(slave.acks) = 1
  /\ slave.sent >= 2
  /\ Len(master.acked) >= 2
  /\ m2s = <<>>
  /\ env.faults = 1

\* the reader has what it needs to produce the next acknowledgement
AckComing ==
  \/ m2s # <<>>
  \/ master.pc = "r_data" /\ Len(s2m) >= master.size[2]
  \/ master.pc = "r_hdr" /\ Len(s2m) >= 8

\* the acknowledgements the reader has emitted and the writer has not taken
Unread(emitted, taken) == SubSeq(emitted, Len(taken) + 1, Len(emitted))

\* C27: on a transport that delivers every byte in order a stream_reader /
\* stream_writer pair never deadlocks after setup: whenever the writer
\* blocks for an acknowledgement at least one frame it sent is not
\* acknowledged, and an acknowledgement is under way or the reader holds a
\* frame to answer; the k-th byte the reader emits is the k-th value the
\* writer expects.
C27_NoStreamDeadlock ==
  /\ WriterWaits =>
       /\ slave.sent - Len(slave.acks) >= 1
       /\ AckComing
  /\ slave.pc # "w_setup" =>
       /\ Len(slave.acks) <= Len(master.acked)
       /\ slave.acks = SubSeq(master.acked, 1, Len(slave.acks))
       /\ m2s = Unread(master.acked, slave.acks) \/ slave.pc = "w_done"
       /\ slave.pc # "w_done" =>
            slave.rx_lfsr = IF m2s # <<>> THEN Head(m2s) ELSE master.tx_lfsr

\* C27: a writer of depth 8 blocks with four frames sent and none answered yet
C27_Witness ==
  /\ WriterWaits
  /\ slave.queue_depth = 8
  /\ slave.sent = 4
  /\ slave.acks = <<>>
  /\ m2s = <<>>

\* C28: a stream writer on a transport with the repeat-byte guard (SPI or
\* I2C master, cap 1) keeps streaming when the reader answers each frame
\* with the right byte: the writer that takes the byte it expects goes on to
\* its next frame.
C28_GuardedWriterStreams ==
  [][(WriterTakesByte /\ slave.transport \in SameGuarded /\
      Head(m2s) = slave.rx_lfsr) => slave'.pc = "w_send"]_vars

====
